---- MODULE Spec2Model ----
(***************************************************************************)
(* Model of the ruuls rules engine (src/src/ruuls.rs, src/src/lib.rs).     *)
(*                                                                         *)
(* A Rust String is a sequence of one-character strings, so that parsing   *)
(* (str::parse::<i64>, str::parse::<bool>), formatting ("At least {} of") *)
(* and JSON-pointer resolution are computed character by character.        *)
(* Option<T> is a sequence of length at most one: <<>> is None, <<x>> is   *)
(* Some(x).                                                                *)
(***************************************************************************)
EXTENDS Integers, Sequences, FiniteSets, TLC

VARIABLES
    rule,       \* the Rule tree handed to check_map / check_json (&self)
    mode,       \* "map": facts is a HashMap<String,String>; "json": a Value
    facts,      \* the fact payload (info)
    result,     \* <<>> before the call, <<RuleResult>> after it
    consulted,  \* the (constraint, value) pairs given to the constraint matcher
    acc,        \* a Status accumulator (let mut status)
    hist,       \* the operator applications made on acc
    engine      \* the Dispatch Engine: registered rules, deliveries, run outcome

vars == <<rule, mode, facts, result, consulted, acc, hist, engine>>

(***************************************************************************)
(* Bounds of the model.                                                    *)
(***************************************************************************)
MaxStrLen == 2      \* generated fact strings have at most this many characters
MaxNum == 2         \* integer operands and JSON integers range over -1..MaxNum
MaxRules == 3       \* a composite node has at most this many children
MaxOps == 3         \* operator applications on the Status accumulator
MaxEngineRules == 2 \* rules registered with the Dispatch Engine

(***************************************************************************)
(* Strings.                                                                *)
(***************************************************************************)
Digits == <<"0", "1", "2", "3", "4", "5", "6", "7", "8", "9">>

IsDigit(c) == \E i \in 1..10 : Digits[i] = c

DigitValue(c) == (CHOOSE i \in 1..10 : Digits[i] = c) - 1

RECURSIVE DigitsValue(_)
\* the number written by a non-empty sequence of decimal digits
DigitsValue(ds) ==
    IF ds = <<>> THEN 0
    ELSE 10 * DigitsValue(SubSeq(ds, 1, Len(ds) - 1)) + DigitValue(ds[Len(ds)])

\* a variant of parse_i64 that reads the digits and skips everything else (atoi-like)
parse_i64_lossy(v) ==
    LET ds == SelectSeq(v, IsDigit)
    IN  <<IF ds = <<>> THEN 0 ELSE DigitsValue(ds)>>

\* str::parse::<i64>(): an optional sign, then one or more decimal digits.
\* The strings of the model are far shorter than 19 digits, so the overflow
\* error of the parser cannot arise and is not modelled.
parse_i64(v) ==
    LET body == IF v # <<>> /\ v[1] \in {"+", "-"} THEN Tail(v) ELSE v
        neg == v # <<>> /\ v[1] = "-"
    IN  IF body = <<>> \/ \E i \in 1..Len(body) : ~IsDigit(body[i])
        THEN <<>>
        ELSE <<IF neg THEN 0 - DigitsValue(body) ELSE DigitsValue(body)>>

\* str::parse::<bool>(): exactly "true" or "false", anything else is an error.
parse_bool(v) ==
    IF v = <<"t", "r", "u", "e">> THEN <<TRUE>>
    ELSE IF v = <<"f", "a", "l", "s", "e">> THEN <<FALSE>>
    ELSE <<>>

RECURSIVE to_string(_)
\* Display for usize, as used by format!("At least {} of", count)
to_string(n) ==
    IF n < 10 THEN <<Digits[n + 1]>>
    ELSE to_string(n \div 10) \o <<Digits[(n % 10) + 1]>>

(***************************************************************************)
(* STATUS                                                                  *)
(***************************************************************************)
Status == {"Met", "NotMet", "Unknown"}

\* a variant of bitand that only sees a NotMet on the left
bitand_left_notmet(self, rhs) ==
    IF self = "Met" /\ rhs = "Met" THEN "Met"
    ELSE IF self = "NotMet" THEN "NotMet"
    ELSE "Unknown"

\* a variant of bitand in which Unknown wins over NotMet
bitand_unknown_wins(self, rhs) ==
    IF self = "Met" /\ rhs = "Met" THEN "Met"
    ELSE IF self = "Unknown" \/ rhs = "Unknown" THEN "Unknown"
    ELSE "NotMet"

bitand(self, rhs) ==
    IF self = "Met" /\ rhs = "Met" THEN "Met"
    ELSE IF self = "NotMet" \/ rhs = "NotMet" THEN "NotMet"
    ELSE "Unknown"

\* a variant of bitor in which Unknown wins over Met
bitor_unknown_wins(self, rhs) ==
    IF self = "NotMet" /\ rhs = "NotMet" THEN "NotMet"
    ELSE IF self = "Unknown" \/ rhs = "Unknown" THEN "Unknown"
    ELSE "Met"

\* a variant of bitor in which NotMet absorbs Unknown
bitor_notmet_absorbs(self, rhs) ==
    IF self = "Met" \/ rhs = "Met" THEN "Met"
    ELSE IF self = "NotMet" \/ rhs = "NotMet" THEN "NotMet"
    ELSE "Unknown"

bitor(self, rhs) ==
    IF self = "NotMet" /\ rhs = "NotMet" THEN "NotMet"
    ELSE IF self = "Met" \/ rhs = "Met" THEN "Met"
    ELSE "Unknown"

\* a variant of not that maps Unknown to NotMet
not_two_valued(self) == IF self = "NotMet" THEN "Met" ELSE "NotMet"

not(self) ==
    CASE self = "Met" -> "NotMet"
      [] self = "NotMet" -> "Met"
      [] self = "Unknown" -> "Unknown"

(***************************************************************************)
(* serde_json::Value, as far as the evaluator reads it.  A Number is an    *)
(* integer (PosInt / NegInt) or, with f = TRUE, a Float of integral value  *)
(* n; unsigned integers above i64::MAX are outside the model's range.      *)
(***************************************************************************)
Null == [t |-> "Null", b |-> FALSE, n |-> 0, f |-> FALSE, s |-> <<>>, a |-> <<>>, o |-> <<>>]

Bool(b) == [Null EXCEPT !.t = "Bool", !.b = b]

Number(n) == [Null EXCEPT !.t = "Number", !.n = n]

Float(n) == [Null EXCEPT !.t = "Number", !.n = n, !.f = TRUE]

String(s) == [Null EXCEPT !.t = "String", !.s = s]

Array(a) == [Null EXCEPT !.t = "Array", !.a = a]

Object(o) == [Null EXCEPT !.t = "Object", !.o = o]

as_str(v) == IF v.t = "String" THEN <<v.s>> ELSE <<>>

as_i64(v) == IF v.t = "Number" /\ ~v.f THEN <<v.n>> ELSE <<>>

\* a variant of as_bool that also reads a String, as true iff it is "true"
as_bool_coercing(v) ==
    IF v.t = "Bool" THEN <<v.b>>
    ELSE IF v.t = "String" THEN <<v.s = <<"t", "r", "u", "e">>>>
    ELSE <<>>

as_bool(v) == IF v.t = "Bool" THEN <<v.b>> ELSE <<>>

\* str::split('/'): the segments between the separators, in order
RECURSIVE split(_, _)
split(s, acc0) ==
    IF s = <<>> THEN <<acc0>>
    ELSE IF s[1] = "/" THEN <<acc0>> \o split(Tail(s), <<>>)
    ELSE split(Tail(s), Append(acc0, s[1]))

\* x.replace("~1", "/").replace("~0", "~") on one reference token
RECURSIVE replace(_, _, _)
replace(x, from, to) ==
    IF Len(x) < 2 THEN x
    ELSE IF SubSeq(x, 1, 2) = from THEN <<to>> \o replace(SubSeq(x, 3, Len(x)), from, to)
    ELSE <<x[1]>> \o replace(Tail(x), from, to)

unescape(x) == replace(replace(x, <<"~", "1">>, "/"), <<"~", "0">>, "~")

\* serde_json's parse_index: no leading '+', no leading zero except "0" itself
parse_index(tok) ==
    IF tok = <<>> \/ tok[1] = "+" \/ (tok[1] = "0" /\ Len(tok) # 1)
        \/ \E i \in 1..Len(tok) : ~IsDigit(tok[i])
    THEN <<>>
    ELSE <<DigitsValue(tok)>>

\* one step of the try_fold of Value::pointer
pointer_step(target, tok) ==
    CASE target.t = "Object" ->
            IF tok \in DOMAIN target.o THEN <<target.o[tok]>> ELSE <<>>
      [] target.t = "Array" ->
            LET ix == parse_index(tok)
            IN  IF ix # <<>> /\ ix[1] < Len(target.a) THEN <<target.a[ix[1] + 1]>> ELSE <<>>
      [] OTHER -> <<>>

RECURSIVE pointer_fold(_, _)
pointer_fold(target, toks) ==
    IF toks = <<>> THEN <<target>>
    ELSE LET nxt == pointer_step(target, unescape(Head(toks)))
         IN  IF nxt = <<>> THEN <<>> ELSE pointer_fold(nxt[1], Tail(toks))

\* Value::pointer, as called by info.pointer(field)
pointer(self, ptr) ==
    IF ptr = <<>> THEN <<self>>
    ELSE IF ptr[1] # "/" THEN <<>>
    ELSE pointer_fold(self, Tail(split(ptr, <<>>)))

\* HashMap::get
get(info, field) == IF field \in DOMAIN info THEN <<info[field]>> ELSE <<>>

(***************************************************************************)
(* CONSTRAINT                                                              *)
(***************************************************************************)
NoConstraint ==
    [op |-> "None", s |-> <<>>, ss |-> <<>>, num |-> 0, nums |-> <<>>,
     start |-> 0, end |-> 0, b |-> FALSE]

StringEquals(s) == [NoConstraint EXCEPT !.op = "StringEquals", !.s = s]
StringNotEquals(s) == [NoConstraint EXCEPT !.op = "StringNotEquals", !.s = s]
StringIn(ss) == [NoConstraint EXCEPT !.op = "StringIn", !.ss = ss]
StringNotIn(ss) == [NoConstraint EXCEPT !.op = "StringNotIn", !.ss = ss]
IntEquals(num) == [NoConstraint EXCEPT !.op = "IntEquals", !.num = num]
IntNotEquals(num) == [NoConstraint EXCEPT !.op = "IntNotEquals", !.num = num]
IntIn(nums) == [NoConstraint EXCEPT !.op = "IntIn", !.nums = nums]
IntNotIn(nums) == [NoConstraint EXCEPT !.op = "IntNotIn", !.nums = nums]
IntInRange(start, end) == [NoConstraint EXCEPT !.op = "IntInRange", !.start = start, !.end = end]
IntNotInRange(start, end) == [NoConstraint EXCEPT !.op = "IntNotInRange", !.start = start, !.end = end]
LessThan(num) == [NoConstraint EXCEPT !.op = "LessThan", !.num = num]
LessThanInclusive(num) == [NoConstraint EXCEPT !.op = "LessThanInclusive", !.num = num]
GreaterThan(num) == [NoConstraint EXCEPT !.op = "GreaterThan", !.num = num]
GreaterThanInclusive(num) == [NoConstraint EXCEPT !.op = "GreaterThanInclusive", !.num = num]
BoolEquals(b) == [NoConstraint EXCEPT !.op = "BoolEquals", !.b = b]

met_if(cond) == IF cond THEN "Met" ELSE "NotMet"

\* the comparison each string operator makes on a string it was given
string_test(c, v) ==
    CASE c.op = "StringEquals" -> v = c.s
      [] c.op = "StringNotEquals" -> v # c.s
      [] c.op = "StringIn" -> \E i \in 1..Len(c.ss) : c.ss[i] = v
      [] c.op = "StringNotIn" -> \A i \in 1..Len(c.ss) : c.ss[i] # v

\* a variant of int_test whose ranges leave out their upper end
int_test_half_open(c, val) ==
    CASE c.op = "IntEquals" -> val = c.num
      [] c.op = "IntNotEquals" -> val # c.num
      [] c.op = "IntIn" -> \E i \in 1..Len(c.nums) : c.nums[i] = val
      [] c.op = "IntNotIn" -> \A i \in 1..Len(c.nums) : c.nums[i] # val
      [] c.op = "IntInRange" -> c.start <= val /\ val < c.end
      [] c.op = "IntNotInRange" -> ~(c.start <= val /\ val < c.end)
      [] c.op = "LessThan" -> val < c.num
      [] c.op = "LessThanInclusive" -> val <= c.num
      [] c.op = "GreaterThan" -> val > c.num
      [] c.op = "GreaterThanInclusive" -> val >= c.num

\* the comparison each integer operator makes on an i64 it was given
int_test(c, val) ==
    CASE c.op = "IntEquals" -> val = c.num
      [] c.op = "IntNotEquals" -> val # c.num
      [] c.op = "IntIn" -> \E i \in 1..Len(c.nums) : c.nums[i] = val
      [] c.op = "IntNotIn" -> \A i \in 1..Len(c.nums) : c.nums[i] # val
      [] c.op = "IntInRange" -> c.start <= val /\ val <= c.end
      [] c.op = "IntNotInRange" -> ~(c.start <= val /\ val <= c.end)
      [] c.op = "LessThan" -> val < c.num
      [] c.op = "LessThanInclusive" -> val <= c.num
      [] c.op = "GreaterThan" -> val > c.num
      [] c.op = "GreaterThanInclusive" -> val >= c.num

StringOps == {"StringEquals", "StringNotEquals", "StringIn", "StringNotIn"}

IntOps ==
    {"IntEquals", "IntNotEquals", "IntIn", "IntNotIn", "IntInRange", "IntNotInRange",
     "LessThan", "LessThanInclusive", "GreaterThan", "GreaterThanInclusive"}

\* Constraint::check_json
Constraint_check_json(self, v) ==
    CASE self.op \in StringOps ->
            LET sv == as_str(v)
            IN  IF sv # <<>> THEN met_if(string_test(self, sv[1])) ELSE "NotMet"
      [] self.op \in IntOps ->
            LET iv == as_i64(v)
            IN  IF iv # <<>> THEN met_if(int_test(self, iv[1])) ELSE "NotMet"
      [] self.op = "BoolEquals" ->
            LET bv == as_bool(v)
            IN  IF bv # <<>> THEN met_if(bv[1] = self.b) ELSE "NotMet"

\* Constraint::check_str
Constraint_check_str(self, v) ==
    CASE self.op \in StringOps -> met_if(string_test(self, v))
      [] self.op \in IntOps ->
            LET parse_res == parse_i64(v)
            IN  IF parse_res # <<>> THEN met_if(int_test(self, parse_res[1])) ELSE "NotMet"
      [] self.op = "BoolEquals" ->
            LET parse_res == parse_bool(v)
            IN  IF parse_res # <<>> THEN met_if(parse_res[1] = self.b) ELSE "NotMet"

(***************************************************************************)
(* Rule                                                                    *)
(*                                                                         *)
(* One record shape for the four variants: And { and }, Or { or } and      *)
(* AtLeast { n, rules } keep their children in .rules, Rule { field,       *)
(* constraint } is the leaf.                                               *)
(***************************************************************************)
Leaf(field, constraint) ==
    [kind |-> "Rule", n |-> 0, rules |-> <<>>, field |-> field, constraint |-> constraint]

And(and) ==
    [kind |-> "And", n |-> 0, rules |-> and, field |-> <<>>, constraint |-> NoConstraint]

Or(or) ==
    [kind |-> "Or", n |-> 0, rules |-> or, field |-> <<>>, constraint |-> NoConstraint]

AtLeast(n, rules) ==
    [kind |-> "AtLeast", n |-> n, rules |-> rules, field |-> <<>>, constraint |-> NoConstraint]

\* RuleResult { name, status, children }
RuleResult(name, status, children) ==
    [name |-> name, status |-> status, children |-> children]

\* .inspect(|r| status = status & r.status) over the children, left to right
RECURSIVE and_fold(_, _)
and_fold(status, children) ==
    IF children = <<>> THEN status
    ELSE and_fold(bitand(status, Head(children).status), Tail(children))

\* .inspect(|r| status = status | r.status) over the children, left to right
RECURSIVE or_fold(_, _)
or_fold(status, children) ==
    IF children = <<>> THEN status
    ELSE or_fold(bitor(status, Head(children).status), Tail(children))

\* a variant of count_met that counts every child that is not NotMet
RECURSIVE count_not_notmet(_, _)
count_not_notmet(met_count, children) ==
    IF children = <<>> THEN met_count
    ELSE count_not_notmet(IF Head(children).status # "NotMet" THEN met_count + 1
                          ELSE met_count,
                          Tail(children))

\* .inspect(|r| if r.status == Status::Met { met_count += 1 })
RECURSIVE count_met(_, _)
count_met(met_count, children) ==
    IF children = <<>> THEN met_count
    ELSE count_met(IF Head(children).status = "Met" THEN met_count + 1 ELSE met_count,
                   Tail(children))

\* a variant of at_least_status with a strict comparison
at_least_status_strict(met_count, count) ==
    IF met_count > count THEN "Met" ELSE "NotMet"

\* a variant of at_least_status with the comparison turned around
at_least_status_swapped(met_count, count) ==
    IF met_count <= count THEN "Met" ELSE "NotMet"

\* let status = if met_count >= count { Met } else { NotMet }
at_least_status(met_count, count) ==
    IF met_count >= count THEN "Met" ELSE "NotMet"

\* format!("At least {} of", count)
at_least_name(count) ==
    <<"A", "t", " ", "l", "e", "a", "s", "t", " ">> \o to_string(count) \o <<" ", "o", "f">>

and_name == <<"A", "n", "d">>

or_name == <<"O", "r">>

\* a variant of collect that stops after the first child that is NotMet
collect_until_notmet(runs) ==
    LET stop == {i \in 1..Len(runs) : runs[i].res.status = "NotMet"}
        last == IF stop = {} THEN Len(runs) ELSE CHOOSE i \in stop : \A j \in stop : i <= j
    IN  [i \in 1..last |-> runs[i].res]

\* .map(|c| c.check(info)) ... .collect::<Vec<_>>(): every child's result, in order
collect(runs) == [i \in 1..Len(runs) |-> runs[i].res]

\* the matcher calls made below a composite node, in evaluation order
RECURSIVE calls_of(_)
calls_of(runs) ==
    IF runs = <<>> THEN <<>> ELSE Head(runs).calls \o calls_of(Tail(runs))

\* the composite arms of check_map and check_json, given the children's runs
composite(self, runs) ==
    LET children == collect(runs)
    IN  CASE self.kind = "And" ->
                RuleResult(and_name, and_fold("Met", children), children)
          [] self.kind = "Or" ->
                RuleResult(or_name, or_fold("NotMet", children), children)
          [] self.kind = "AtLeast" ->
                RuleResult(at_least_name(self.n),
                           at_least_status(count_met(0, children), self.n), children)

\* a variant of leaf_map that gives the matcher an empty string for an absent field
leaf_map_or_default(field, constraint, info) ==
    LET s == IF field \in DOMAIN info THEN info[field] ELSE <<>>
    IN  [res |-> RuleResult(field, Constraint_check_str(constraint, s), <<>>),
         calls |-> <<[constraint |-> constraint, value |-> s]>>]

\* the leaf arm of check_map: if let Some(s) = info.get(field)
leaf_map(field, constraint, info) ==
    LET s == get(info, field)
    IN  IF s # <<>>
        THEN [res |-> RuleResult(field, Constraint_check_str(constraint, s[1]), <<>>),
              calls |-> <<[constraint |-> constraint, value |-> s[1]]>>]
        ELSE [res |-> RuleResult(field, "Unknown", <<>>), calls |-> <<>>]

\* the leaf arm of check_json: if let Some(s) = info.pointer(field)
leaf_json(field, constraint, info) ==
    LET s == pointer(info, field)
    IN  IF s # <<>>
        THEN [res |-> RuleResult(field, Constraint_check_json(constraint, s[1]), <<>>),
              calls |-> <<[constraint |-> constraint, value |-> s[1]]>>]
        ELSE [res |-> RuleResult(field, "Unknown", <<>>), calls |-> <<>>]

\* Rule::check_map, with the matcher calls it makes
RECURSIVE check_map_run(_, _)
check_map_run(self, info) ==
    IF self.kind = "Rule" THEN leaf_map(self.field, self.constraint, info)
    ELSE LET runs == [i \in 1..Len(self.rules) |-> check_map_run(self.rules[i], info)]
         IN  [res |-> composite(self, runs), calls |-> calls_of(runs)]

\* Rule::check_json, with the matcher calls it makes
RECURSIVE check_json_run(_, _)
check_json_run(self, info) ==
    IF self.kind = "Rule" THEN leaf_json(self.field, self.constraint, info)
    ELSE LET runs == [i \in 1..Len(self.rules) |-> check_json_run(self.rules[i], info)]
         IN  [res |-> composite(self, runs), calls |-> calls_of(runs)]

check_map(self, info) == check_map_run(self, info).res

check_json(self, info) == check_json_run(self, info).res

(***************************************************************************)
(* The inputs of the model.                                                *)
(***************************************************************************)
s_foo == <<"f", "o", "o">>
s_bar == <<"b", "a", "r">>
s_baz == <<"b", "a", "z">>
s_quux == <<"q", "u", "u", "x">>
s_true == <<"t", "r", "u", "e">>
s_false == <<"f", "a", "l", "s", "e">>
s_TRUE == <<"T", "R", "U", "E">>
p_foo == <<"/">> \o s_foo
p_bar == <<"/">> \o s_bar
p_baz == <<"/">> \o s_baz
p_baz_0 == p_baz \o <<"/", "0">>
p_baz_k == p_baz \o <<"/", "k">>

\* every string of at most n characters over the alphabet
RECURSIVE Strings(_, _)
Strings(alphabet, n) ==
    IF n = 0 THEN {<<>>}
    ELSE LET shorter == Strings(alphabet, n - 1)
         IN  shorter \cup {Append(s, c) : s \in shorter, c \in alphabet}

\* the raw string facts: generated ones and the named ones of the tests
StrVals ==
    Strings({"1", "-", "a"}, MaxStrLen)
        \cup {<<"2">>, <<"+", "1">>, s_bar, s_true, s_false, s_TRUE}

Nums == -1..MaxNum

\* the JSON facts below the payload's keys
JsonVals ==
    {Null, Bool(TRUE), Bool(FALSE), Float(1),
     String(s_bar), String(<<"1">>), String(s_true), String(s_TRUE),
     Array(<<Number(1)>>), Object([k \in {<<"k">>} |-> Number(1)])}
        \cup {Number(n) : n \in Nums}

\* every HashMap / JSON object with the given keys, each absent or one of vals[key]
RECURSIVE Maps(_, _)
Maps(keys, vals) ==
    IF keys = {} THEN {<<>>}
    ELSE LET k == CHOOSE x \in keys : TRUE
             rest == Maps(keys \ {k}, vals)
         IN  rest \cup {[x \in DOMAIN m \cup {k} |-> IF x = k THEN v ELSE m[x]] :
                            m \in rest, v \in vals[k]}

NumSeqs == {<<>>} \cup {<<a>> : a \in Nums} \cup {<<a, a + 1>> : a \in Nums}

StrOperands == {s_bar, <<"1">>}

StrSeqs == {<<>>, <<s_bar>>, <<<<"1">>, s_bar>>}

\* every constraint operator, with small operands
Constraints ==
    {StringEquals(s) : s \in StrOperands} \cup {StringNotEquals(s) : s \in StrOperands}
        \cup {StringIn(ss) : ss \in StrSeqs} \cup {StringNotIn(ss) : ss \in StrSeqs}
        \cup {IntEquals(n) : n \in Nums} \cup {IntNotEquals(n) : n \in Nums}
        \cup {IntIn(ns) : ns \in NumSeqs} \cup {IntNotIn(ns) : ns \in NumSeqs}
        \cup {IntInRange(lo, hi) : lo \in Nums, hi \in Nums}
        \cup {IntNotInRange(lo, hi) : lo \in Nums, hi \in Nums}
        \cup {LessThan(n) : n \in Nums} \cup {LessThanInclusive(n) : n \in Nums}
        \cup {GreaterThan(n) : n \in Nums} \cup {GreaterThanInclusive(n) : n \in Nums}
        \cup {BoolEquals(b) : b \in BOOLEAN}

LeafFields == {s_foo, p_foo, s_quux, <<>>, p_baz_0, p_baz_k}

LeafRules == {Leaf(f, c) : f \in LeafFields, c \in Constraints}

\* facts for one leaf: the key "foo" absent or any raw string
LeafMaps == Maps({s_foo}, [k \in {s_foo} |-> StrVals])

\* JSON payloads for one leaf: an object with "foo" absent or any value and
\* "baz" absent, an array or an object; and payloads that are no object
LeafJsons ==
    {Object(m) : m \in Maps({s_foo}, [k \in {s_foo} |-> JsonVals])}
        \cup {Object([k \in {s_baz} |-> v]) :
                v \in {Array(<<Number(1)>>), Object([k \in {<<"k">>} |-> Number(1)])}}
        \cup {Number(1), String(s_bar), Null}

\* the leaves of the composite trees: three independent fields
TreeLeaves ==
    <<Leaf(p_foo, IntEquals(1)), Leaf(p_bar, StringEquals(s_bar)), Leaf(p_baz, BoolEquals(TRUE))>>

TreeLeafSet == {TreeLeaves[i] : i \in 1..Len(TreeLeaves)}

\* every sequence of at most n members of S
RECURSIVE SeqsUpTo(_, _)
SeqsUpTo(S, n) ==
    IF n = 0 THEN {<<>>}
    ELSE LET shorter == SeqsUpTo(S, n - 1)
         IN  shorter \cup {Append(s, x) : s \in shorter, x \in S}

\* the composite nodes over a set of child sequences: And, Or and AtLeast with
\* every threshold from 0 to one more than the largest child count
Composites(seqs) ==
    {And(s) : s \in seqs} \cup {Or(s) : s \in seqs}
        \cup {AtLeast(n, s) : n \in 0..(MaxRules + 1), s \in seqs}

FlatRules == Composites(SeqsUpTo(TreeLeafSet, MaxRules))

InnerRules ==
    {And(<<>>), Or(<<>>), And(<<TreeLeaves[1], TreeLeaves[2]>>),
     Or(<<TreeLeaves[1], TreeLeaves[2]>>), AtLeast(1, <<TreeLeaves[1], TreeLeaves[2]>>),
     AtLeast(10, <<TreeLeaves[3]>>)}

NestedRules ==
    LET pool == TreeLeafSet \cup InnerRules
    IN  Composites({<<a>> : a \in InnerRules} \cup {<<a, b>> : a \in InnerRules, b \in pool}
                       \cup {<<a, b>> : a \in pool, b \in InnerRules})

TreeRules == FlatRules \cup NestedRules

\* facts for the trees: each leaf's field absent, matching or not matching
TreeMaps ==
    Maps({p_foo, p_bar, p_baz},
         [k \in {p_foo, p_bar, p_baz} |->
             IF k = p_foo THEN {<<"1">>, <<"2">>}
             ELSE IF k = p_bar THEN {s_bar, s_baz} ELSE {s_true, s_false}])

TreeJsons ==
    {Object(m) : m \in
        Maps({s_foo, s_bar, s_baz},
             [k \in {s_foo, s_bar, s_baz} |->
                 IF k = s_foo THEN {Number(1), Number(2)}
                 ELSE IF k = s_bar THEN {String(s_bar), String(s_baz)}
                 ELSE {Bool(TRUE), Bool(FALSE)}])}

(***************************************************************************)
(* The Dispatch Engine.  Its code is not among the sources; it is modelled *)
(* from the design document (Dispatch Engine, Concurrency & resource       *)
(* model).  An event is kept by its variant only: the text of its message  *)
(* plays no part in what is delivered to whom.                             *)
(***************************************************************************)
EventTypes == {"Message", "PostToCallbackUrl"}

\* Rule { conditions, event }
EngineRule(conditions, event) == [conditions |-> conditions, event |-> event]

\* the engine before run: no delivery issued, nothing returned
Engine(rules) == [rules |-> rules, pc |-> "idle", deliveries |-> <<>>, ret |-> <<>>]

NoEngine == Engine(<<>>)

\* a variant of needs_delivery that delivers whatever the event's variant is
needs_delivery_any_event(status, event) == status = "Met"

\* a satisfied rule whose event variant requires an external delivery
needs_delivery(status, event) == status = "Met" /\ event = "PostToCallbackUrl"

\* the registered rules whose top-level condition status is Met, by index, in
\* registration order
satisfied(rs, info) ==
    LET IsMet(i) == check_json(rs[i].conditions, info).status = "Met"
    IN  SelectSeq([i \in 1..Len(rs) |-> i], IsMet)

\* the deliveries issued for one run: one per satisfied rule that needs one
issue(rs, info) ==
    LET Needs(i) == needs_delivery(check_json(rs[i].conditions, info).status, rs[i].event)
        to == SelectSeq(satisfied(rs, info), Needs)
    IN  [k \in 1..Len(to) |-> [rule |-> to[k], state |-> "in_flight"]]

\* the returned list: the result and the event of every satisfied rule
rule_results(rs, info) ==
    LET sat == satisfied(rs, info)
    IN  [k \in 1..Len(sat) |->
            [condition_result |-> check_json(rs[sat[k]].conditions, info),
             event |-> rs[sat[k]].event]]

\* the conditions and the rules the engine is given
EngineConditions ==
    {TreeLeaves[1], TreeLeaves[2], And(<<TreeLeaves[1], TreeLeaves[2]>>),
     AtLeast(1, <<TreeLeaves[1], TreeLeaves[3]>>)}

EngineRules == {EngineRule(c, e) : c \in EngineConditions, e \in EventTypes}

InitDispatch ==
    /\ rule = And(<<>>)
    /\ mode = "json"
    /\ facts \in TreeJsons
    /\ result = <<>>
    /\ consulted = <<>>
    /\ acc = "Met"
    /\ hist = <<>>
    /\ engine \in {Engine(rs) : rs \in SeqsUpTo(EngineRules, MaxEngineRules)}

\* run(facts), up to the fan-out: every rule is evaluated and every eligible
\* delivery is issued
Run ==
    /\ engine.pc = "idle"
    /\ engine' = [engine EXCEPT !.pc = "waiting", !.deliveries = issue(engine.rules, facts)]
    /\ UNCHANGED <<rule, mode, facts, result, consulted, acc, hist>>

\* the delivery client reports one delivery as done or as failed; a delivery
\* in flight is not cancelled when the run has already failed
Delivered(k, outcome) ==
    /\ engine.pc # "idle"
    /\ engine.deliveries[k].state = "in_flight"
    /\ engine' = [engine EXCEPT !.deliveries[k].state = outcome]
    /\ UNCHANGED <<rule, mode, facts, result, consulted, acc, hist>>

DeliverOk == \E k \in 1..Len(engine.deliveries) : Delivered(k, "ok")

DeliverFail == \E k \in 1..Len(engine.deliveries) : Delivered(k, "failed")

\* the fan-in: the run fails as soon as a failure is observed and returns the
\* rule results once every delivery has succeeded
Finish ==
    /\ engine.pc = "waiting"
    /\ LET states == {engine.deliveries[k].state : k \in 1..Len(engine.deliveries)}
       IN  \/ /\ "failed" \in states
              /\ engine' = [engine EXCEPT !.pc = "done",
                               !.ret = <<[ok |-> FALSE, results |-> <<>>]>>]
           \/ /\ states \subseteq {"ok"}
              /\ engine' = [engine EXCEPT !.pc = "done",
                               !.ret = <<[ok |-> TRUE,
                                          results |-> rule_results(engine.rules, facts)]>>]
    /\ UNCHANGED <<rule, mode, facts, result, consulted, acc, hist>>

NextDispatch == Run \/ DeliverOk \/ DeliverFail \/ Finish

SpecDispatch == InitDispatch /\ [][NextDispatch]_vars

(***************************************************************************)
(* The evaluator: a rule tree and a fact payload are given, and check_map  *)
(* or check_json is called on them.                                        *)
(***************************************************************************)
Init ==
    /\ \/ rule \in LeafRules /\ mode = "map" /\ facts \in LeafMaps
       \/ rule \in LeafRules /\ mode = "json" /\ facts \in LeafJsons
       \/ rule \in TreeRules /\ mode = "map" /\ facts \in TreeMaps
       \/ rule \in TreeRules /\ mode = "json" /\ facts \in TreeJsons
    /\ result = <<>>
    /\ consulted = <<>>
    /\ acc = "Met"
    /\ hist = <<>>
    /\ engine = NoEngine

CheckMap ==
    /\ mode = "map"
    /\ result = <<>>
    /\ LET run == check_map_run(rule, facts)
       IN  /\ result' = <<run.res>>
           /\ consulted' = run.calls
    /\ UNCHANGED <<rule, mode, facts, acc, hist, engine>>

CheckJson ==
    /\ mode = "json"
    /\ result = <<>>
    /\ LET run == check_json_run(rule, facts)
       IN  /\ result' = <<run.res>>
           /\ consulted' = run.calls
    /\ UNCHANGED <<rule, mode, facts, acc, hist, engine>>

Next == CheckMap \/ CheckJson

Spec == Init /\ [][Next]_vars

(***************************************************************************)
(* The Status algebra on its own: operators applied to an accumulator.     *)
(***************************************************************************)
InitStatus ==
    /\ rule = And(<<>>)
    /\ mode = "map"
    /\ facts = <<>>
    /\ result = <<>>
    /\ consulted = <<>>
    /\ acc \in Status
    /\ hist = <<>>
    /\ engine = NoEngine

Apply(op, rhs, out) ==
    /\ Len(hist) < MaxOps
    /\ acc' = out
    /\ hist' = Append(hist, [op |-> op, lhs |-> acc, rhs |-> rhs, out |-> out])
    /\ UNCHANGED <<rule, mode, facts, result, consulted, engine>>

BitAnd == \E rhs \in Status : Apply("and", rhs, bitand(acc, rhs))

BitOr == \E rhs \in Status : Apply("or", rhs, bitor(acc, rhs))

Not == Apply("not", acc, not(acc))

NextStatus == BitAnd \/ BitOr \/ Not

SpecStatus == InitStatus /\ [][NextStatus]_vars

(***************************************************************************)
(* Properties.                                                             *)
(***************************************************************************)
\* every (rule node, result node) pair of a rule tree and its result tree
RECURSIVE Pairs(_, _)
Pairs(r, res) ==
    {<<r, res>>} \cup
        UNION {Pairs(r.rules[i], res.children[i]) :
                  i \in 1..(IF Len(r.rules) < Len(res.children)
                            THEN Len(r.rules) ELSE Len(res.children))}

Checked == result # <<>>

Evaluated == IF Checked THEN Pairs(rule, result[1]) ELSE {}

StatusesOf(children) == {children[i].status : i \in 1..Len(children)}

\* C1: an And node is NotMet if some child is NotMet, Met if every child is
\* Met, and Unknown otherwise, under check_map and under check_json.
C1_AndStatus ==
    \A p \in Evaluated :
        p[1].kind = "And" =>
            /\ Len(p[2].children) = Len(p[1].rules)
            /\ p[2].status =
                  IF "NotMet" \in StatusesOf(p[2].children) THEN "NotMet"
                  ELSE IF StatusesOf(p[2].children) \subseteq {"Met"} THEN "Met"
                  ELSE "Unknown"

\* an And node of three children, one Met, one Unknown, one NotMet, was evaluated
C1_Witness ==
    /\ Checked
    /\ mode = "json"
    /\ rule.kind = "And"
    /\ Len(result[1].children) = 3
    /\ StatusesOf(result[1].children) = Status
    /\ result[1].status = "NotMet"

\* C2: an Or node is Met if some child is Met, NotMet if every child is
\* NotMet, and Unknown otherwise, under check_map and under check_json.
C2_OrStatus ==
    \A p \in Evaluated :
        p[1].kind = "Or" =>
            /\ Len(p[2].children) = Len(p[1].rules)
            /\ p[2].status =
                  IF "Met" \in StatusesOf(p[2].children) THEN "Met"
                  ELSE IF StatusesOf(p[2].children) \subseteq {"NotMet"} THEN "NotMet"
                  ELSE "Unknown"

\* an Or node of three children, one Met, one Unknown, one NotMet, was evaluated
C2_Witness ==
    /\ Checked
    /\ mode = "map"
    /\ rule.kind = "Or"
    /\ Len(result[1].children) = 3
    /\ StatusesOf(result[1].children) = Status
    /\ result[1].status = "Met"

MetChildren(children) == {i \in 1..Len(children) : children[i].status = "Met"}

Absent(field) ==
    IF mode = "map" THEN field \notin DOMAIN facts
    ELSE pointer(facts, field) = <<>> /\ pointer(facts, <<"/">> \o field) = <<>>

\* the leaves of a rule tree whose field is not absent, counted with repetition
RECURSIVE PresentLeaves(_)
PresentLeaves(r) ==
    IF r.kind = "Rule" THEN (IF Absent(r.field) THEN 0 ELSE 1)
    ELSE LET RECURSIVE Sum(_)
             Sum(i) == IF i = 0 THEN 0 ELSE Sum(i - 1) + PresentLeaves(r.rules[i])
         IN  Sum(Len(r.rules))

\* C4: a leaf whose field is absent from the payload is Unknown, whatever its
\* operator, and the constraint matcher is not consulted for it, under
\* check_map and under check_json.
C4_AbsentFieldUnknown ==
    Checked =>
        /\ \A p \in Evaluated :
              (p[1].kind = "Rule" /\ Absent(p[1].field)) => p[2].status = "Unknown"
        /\ Len(consulted) <= PresentLeaves(rule)

\* a leaf on the absent field "quux" was evaluated against a non-empty JSON payload
C4_Witness ==
    /\ Checked
    /\ mode = "json"
    /\ rule.kind = "Rule"
    /\ rule.field = s_quux
    /\ rule.constraint.op = "IntNotEquals"
    /\ facts.t = "Object" /\ s_foo \in DOMAIN facts.o
    /\ result[1].status = "Unknown"
    /\ consulted = <<>>

\* the text is an optional sign followed by one or more decimal digits
IsIntText(s) ==
    LET d == IF s # <<>> /\ s[1] \in {"+", "-"} THEN Tail(s) ELSE s
    IN  d # <<>> /\ \A i \in 1..Len(d) : d[i] \in {Digits[k] : k \in 1..10}

\* the fact is an integer: integer text for check_str, an integer Number for check_json
IsIntFact(v) == IF mode = "map" THEN IsIntText(v) ELSE v.t = "Number" /\ ~v.f

\* C5: an integer operator given a present fact that is not an integer is
\* NotMet, and the matcher answers only Met or NotMet for a present fact.
C5_NonIntegerNotMet ==
    Checked /\ rule.kind = "Rule" =>
        /\ consulted # <<>> => result[1].status \in {"Met", "NotMet"}
        /\ \A i \in 1..Len(consulted) :
              (consulted[i].constraint.op \in IntOps /\ ~IsIntFact(consulted[i].value))
                  => result[1].status = "NotMet"
        /\ (mode = "map" /\ rule.field \in DOMAIN facts) => consulted # <<>>
        /\ (mode = "json" /\ facts.t = "Object" /\ rule.field # <<>>
                /\ Head(rule.field) = "/" /\ Tail(rule.field) \in DOMAIN facts.o)
              => consulted # <<>>

\* IntNotEquals was given the present string "1a", which is no integer
C5_Witness ==
    /\ Checked
    /\ mode = "map"
    /\ rule.kind = "Rule"
    /\ rule.constraint.op = "IntNotEquals"
    /\ rule.field \in DOMAIN facts
    /\ facts[rule.field] = <<"1", "a">>
    /\ result[1].status = "NotMet"

\* the truth tables of the three operators
AndTable(a, b) ==
    IF a = "Met" /\ b = "Met" THEN "Met"
    ELSE IF "NotMet" \in {a, b} THEN "NotMet" ELSE "Unknown"

OrTable(a, b) ==
    IF a = "NotMet" /\ b = "NotMet" THEN "NotMet"
    ELSE IF "Met" \in {a, b} THEN "Met" ELSE "Unknown"

NotTable(a) == [s \in Status |-> IF s = "Met" THEN "NotMet" ELSE IF s = "NotMet" THEN "Met" ELSE s][a]

\* C6: every application of AND, OR and NOT to Status values gives the value
\* of the truth table, and two NOTs in a row give back the first operand.
C6_TruthTables ==
    /\ \A i \in 1..Len(hist) :
          /\ hist[i].op = "and" => hist[i].out = AndTable(hist[i].lhs, hist[i].rhs)
          /\ hist[i].op = "or" => hist[i].out = OrTable(hist[i].lhs, hist[i].rhs)
          /\ hist[i].op = "not" => hist[i].out = NotTable(hist[i].lhs)
    /\ \A i \in 1..(Len(hist) - 1) :
          (hist[i].op = "not" /\ hist[i + 1].op = "not") => hist[i + 1].out = hist[i].lhs
    /\ hist # <<>> => acc = hist[Len(hist)].out

\* NOT was applied twice to Unknown, then AND with NotMet
C6_Witness ==
    /\ Len(hist) = 3
    /\ hist[1].op = "not" /\ hist[1].lhs = "Unknown"
    /\ hist[2].op = "not"
    /\ hist[3].op = "and" /\ hist[3].rhs = "NotMet"
    /\ acc = "NotMet"

\* the children of a node, rearranged by a permutation of their positions
Permuted(r, perm) == [r EXCEPT !.rules = [i \in 1..Len(r.rules) |-> r.rules[perm[i]]]]

Recheck(r) == IF mode = "map" THEN check_map(r, facts) ELSE check_json(r, facts)

\* C7: AND and OR are commutative and associative on the statuses of the
\* children of an And or Or node, and the node's status is the same for
\* every permutation of its children.
C7_OrderIndependent ==
    \A p \in Evaluated :
        p[1].kind \in {"And", "Or"} =>
            LET st == [i \in 1..Len(p[2].children) |-> p[2].children[i].status]
                I == 1..Len(st)
            IN  /\ \A i, j \in I :
                      /\ bitand(st[i], st[j]) = bitand(st[j], st[i])
                      /\ bitor(st[i], st[j]) = bitor(st[j], st[i])
                /\ \A i, j, k \in I :
                      /\ bitand(bitand(st[i], st[j]), st[k]) = bitand(st[i], bitand(st[j], st[k]))
                      /\ bitor(bitor(st[i], st[j]), st[k]) = bitor(st[i], bitor(st[j], st[k]))
                /\ \A perm \in Permutations(1..Len(p[1].rules)) :
                      Recheck(Permuted(p[1], perm)).status = p[2].status

\* an Or node whose three children are Unknown, NotMet and Met, in this order
C7_Witness ==
    /\ Checked
    /\ rule.kind = "Or"
    /\ Len(result[1].children) = 3
    /\ result[1].children[1].status = "Unknown"
    /\ result[1].children[2].status = "NotMet"
    /\ result[1].children[3].status = "Met"
    /\ result[1].status = "Met"

\* C8: an AtLeast node with threshold 0 is Met, whatever its children.
C8_AtLeastZeroMet ==
    \A p \in Evaluated : (p[1].kind = "AtLeast" /\ p[1].n = 0) => p[2].status = "Met"

\* AtLeast(0, ..) over three children none of which is Met was evaluated
C8_Witness ==
    /\ Checked
    /\ rule.kind = "AtLeast"
    /\ rule.n = 0
    /\ Len(rule.rules) = 3
    /\ "Met" \notin StatusesOf(result[1].children)
    /\ result[1].status = "Met"

\* C9: an AtLeast node whose threshold exceeds its number of children is NotMet.
C9_AtLeastAboveCountNotMet ==
    \A p \in Evaluated :
        (p[1].kind = "AtLeast" /\ p[1].n > Len(p[1].rules)) => p[2].status = "NotMet"

\* AtLeast(3, ..) over two children, both Met, was evaluated by check_json
C9_Witness ==
    /\ Checked
    /\ mode = "json"
    /\ rule.kind = "AtLeast"
    /\ rule.n = 3
    /\ Len(rule.rules) = 2
    /\ StatusesOf(result[1].children) = {"Met"}
    /\ result[1].status = "NotMet"

\* the label of an AtLeast node: "At least ", the threshold in decimal, " of"
IsAtLeastName(name, n) ==
    LET mid == SubSeq(name, 10, Len(name) - 3)
    IN  /\ Len(name) >= 13
        /\ SubSeq(name, 1, 9) = <<"A", "t", " ", "l", "e", "a", "s", "t", " ">>
        /\ SubSeq(name, Len(name) - 2, Len(name)) = <<" ", "o", "f">>
        /\ \A i \in 1..Len(mid) : IsDigit(mid[i])
        /\ Len(mid) = 1 \/ mid[1] # "0"
        /\ DigitsValue(mid) = n

\* the result tree has the shape, the order and the labels of the rule tree
RECURSIVE Isomorphic(_, _)
Isomorphic(r, res) ==
    IF r.kind = "Rule" THEN res.children = <<>> /\ res.name = r.field
    ELSE /\ Len(res.children) = Len(r.rules)
         /\ CASE r.kind = "And" -> res.name = <<"A", "n", "d">>
              [] r.kind = "Or" -> res.name = <<"O", "r">>
              [] r.kind = "AtLeast" -> IsAtLeastName(res.name, r.n)
         /\ \A i \in 1..Len(r.rules) :
               /\ Isomorphic(r.rules[i], res.children[i])
               /\ res.children[i] = Recheck(r.rules[i])

FactInt(v) == IF mode = "map" THEN parse_i64(v)[1] ELSE v.n

\* C11: on an integer fact v, IntInRange(lo, hi) is Met iff lo <= v <= hi and
\* IntNotInRange(lo, hi) is Met iff IntInRange(lo, hi) is NotMet; with lo > hi
\* IntInRange is NotMet and IntNotInRange is Met.
C11_RangeInclusive ==
    (Checked /\ rule.kind = "Rule" /\ consulted # <<>> /\ IsIntFact(consulted[1].value)) =>
        LET c == rule.constraint
            v == FactInt(consulted[1].value)
            st == result[1].status
        IN  /\ c.op = "IntInRange" =>
                  /\ st = "Met" <=> (c.start <= v /\ v <= c.end)
                  /\ st \in {"Met", "NotMet"}
                  /\ c.start > c.end => st = "NotMet"
            /\ c.op = "IntNotInRange" =>
                  /\ st = "Met" <=>
                        Recheck(Leaf(rule.field, IntInRange(c.start, c.end))).status = "NotMet"
                  /\ st \in {"Met", "NotMet"}
                  /\ c.start > c.end => st = "Met"

\* IntInRange(0, 1) was given the integer string "1", its upper end
C11_Witness ==
    /\ Checked
    /\ mode = "map"
    /\ rule.kind = "Rule"
    /\ rule.constraint.op = "IntInRange"
    /\ rule.constraint.start = 0 /\ rule.constraint.end = 1
    /\ consulted # <<>> /\ consulted[1].value = <<"1">>
    /\ result[1].status = "Met"

UpperCase == <<"A", "B", "C", "D", "E", "F", "G", "H", "I", "J", "K", "L", "M",
               "N", "O", "P", "Q", "R", "S", "T", "U", "V", "W", "X", "Y", "Z">>

LowerCase == <<"a", "b", "c", "d", "e", "f", "g", "h", "i", "j", "k", "l", "m",
               "n", "o", "p", "q", "r", "s", "t", "u", "v", "w", "x", "y", "z">>

\* the string with its ASCII upper-case letters turned to lower case
ToLower(s) ==
    [i \in 1..Len(s) |->
        IF \E k \in 1..Len(UpperCase) : UpperCase[k] = s[i]
        THEN LowerCase[CHOOSE k \in 1..Len(UpperCase) : UpperCase[k] = s[i]]
        ELSE s[i]]

\* C12: BoolEquals(b) on a raw string fact is Met iff the string, read as
\* true when it is "true" in any letter case and as false otherwise, equals b.
C12_BoolFromString ==
    (Checked /\ mode = "map" /\ rule.kind = "Rule" /\ rule.constraint.op = "BoolEquals"
        /\ rule.field \in DOMAIN facts) =>
        (result[1].status = "Met"
            <=> ((ToLower(facts[rule.field]) = s_true) = rule.constraint.b))

\* C12, as far as the code goes: BoolEquals(b) on a raw string fact is Met iff
\* the string is exactly "true" and b is true, or exactly "false" and b is false.
C12_BoolFromExactString ==
    (Checked /\ mode = "map" /\ rule.kind = "Rule" /\ rule.constraint.op = "BoolEquals"
        /\ rule.field \in DOMAIN facts) =>
        (result[1].status = "Met"
            <=> facts[rule.field] = (IF rule.constraint.b THEN s_true ELSE s_false))

C14_LeadingSlashOptional ==
    (Checked /\ mode = "json" /\ rule.kind = "Rule" /\ rule.field # <<>>
        /\ Head(rule.field) # "/") =>
        result[1].status =
            check_json(Leaf(<<"/">> \o rule.field, rule.constraint), facts).status

\* the deliveries that were issued for the i-th registered rule
DeliveriesFor(i) == {k \in 1..Len(engine.deliveries) : engine.deliveries[k].rule = i}

\* C15: a run issues exactly one delivery for each registered rule that is Met
\* and has a PostToCallbackUrl event and none for any other rule; if an issued
\* delivery has failed, the finished run is a delivery error without results.
C15_DispatchDeliveries ==
    /\ engine.pc = "idle" => engine.deliveries = <<>>
    /\ engine.pc # "idle" =>
          \A i \in 1..Len(engine.rules) :
              Cardinality(DeliveriesFor(i)) =
                  IF check_json(engine.rules[i].conditions, facts).status = "Met"
                        /\ engine.rules[i].event = "PostToCallbackUrl"
                  THEN 1 ELSE 0
    /\ (engine.pc = "done"
            /\ \E k \in 1..Len(engine.deliveries) : engine.deliveries[k].state = "failed")
          => engine.ret = <<[ok |-> FALSE, results |-> <<>>]>>

\* a run over a Met rule with a Message event and a Met rule with a
\* PostToCallbackUrl event ended as an error after its one delivery failed
C15_Witness ==
    /\ engine.pc = "done"
    /\ Len(engine.rules) = 2
    /\ engine.rules[1].event = "Message"
    /\ engine.rules[2].event = "PostToCallbackUrl"
    /\ \A i \in 1..2 : check_json(engine.rules[i].conditions, facts).status = "Met"
    /\ Len(engine.deliveries) = 1
    /\ engine.deliveries[1] = [rule |-> 2, state |-> "failed"]
    /\ engine.ret = <<[ok |-> FALSE, results |-> <<>>]>>

\* C16: an And node without children is Met and an Or node without children is
\* NotMet, whatever the facts are; Met is the identity of & and NotMet the
\* identity of |, so an And or Or node with one child has its child's status.
C16_FoldIdentities ==
    /\ \A s \in Status : bitand("Met", s) = s /\ bitor("NotMet", s) = s
    /\ \A p \in Evaluated :
          /\ (p[1].kind = "And" /\ p[1].rules = <<>>) =>
                 p[2].status = "Met" /\ p[2].children = <<>>
          /\ (p[1].kind = "Or" /\ p[1].rules = <<>>) =>
                 p[2].status = "NotMet" /\ p[2].children = <<>>
          /\ (p[1].kind \in {"And", "Or"} /\ Len(p[1].rules) = 1) =>
                 /\ Len(p[2].children) = 1
                 /\ p[2].status = p[2].children[1].status

\* an Or node over one child was evaluated to its child's status, Unknown
C16_Witness ==
    /\ Checked
    /\ \E p \in Evaluated :
          /\ p[1].kind = "Or"
          /\ Len(p[1].rules) = 1
          /\ p[2].children[1].status = "Unknown"
          /\ p[2].status = "Unknown"

\* an And node and an Or node without children were evaluated
C16_EmptyWitness ==
    /\ Checked
    /\ \E p \in Evaluated : p[1].kind = "And" /\ p[1].rules = <<>> /\ p[2].status = "Met"
    /\ \E p \in Evaluated : p[1].kind = "Or" /\ p[1].rules = <<>> /\ p[2].status = "NotMet"

====
